---------------------------- MODULE Spec2Model ----------------------------
(***************************************************************************)
(* Modbus/TCP responder of SimpleSocket: the frame reader, the request     *)
(* dispatcher (processRequest) and the session loop (clientThread) of      *)
(* src/src/simple_socket/modbus/ModbusServer.cpp, with readExact of        *)
(* src/include/simple_socket/SimpleConnection.hpp.                         *)
(*                                                                         *)
(* A frame is a sequence of bytes; request[i] of the code is req[i+1]      *)
(* here.  The register store (HoldingRegister, whose source is not part    *)
(* of src/) is a sequence of 16-bit words, register k being reg[k+1].      *)
(***************************************************************************)
EXTENDS Integers, Sequences, FiniteSets, TLC

(***************************************************************************)
(* Bounds of the model.                                                    *)
(***************************************************************************)
\* number of registers of the store handed to the server's constructor
RegSize == 130
\* longest body (bytes after the length field) a client sends
MaxBody == 11
\* frames a client sends on one connection before it closes it
MaxRequests == 2
\* sessions of the server
NumSessions == 2

Sessions == 1..NumSessions

(***************************************************************************)
(* Fixed-width integer arithmetic of the code.                             *)
(***************************************************************************)
U8(x) == x % 256
U16(x) == x % 65536
\* (a << 8) | b for two bytes
Word(hi, lo) == hi * 256 + lo
\* x >> 8 and x & 0xFF, pushed into a vector<uint8_t>
HiByte(x) == U8(x \div 256)
LoByte(x) == x % 256
\* functionCode | 0x80 on a uint8_t
SetErrorFlag(fc) == IF fc >= 128 THEN fc ELSE fc + 128

Min(a, b) == IF a < b THEN a ELSE b

(***************************************************************************)
(* The register store: size(), getUint16(index), setUint16(index, value).  *)
(* An access with index >= size() is outside the storage; the callers'     *)
(* range checks are what keeps it from happening, so here such a get       *)
(* yields 0 and such a set leaves the registers as they are.               *)
(***************************************************************************)
size(r) == Len(r)
getUint16(r, index) == IF index < Len(r) THEN r[index + 1] ELSE 0
setUint16(r, index, value) == IF index < Len(r) THEN [r EXCEPT ![index + 1] = value] ELSE r


(***************************************************************************)
(* Reads of the request vector.  request[i] with i >= request.size() is    *)
(* undefined behaviour of std::vector::operator[]: the read yields         *)
(* whatever byte follows the vector's storage (a byte of the pattern g     *)
(* chosen by the dispatching step) or the process aborts (a checked        *)
(* operator[]), see Dispatch and DispatchAbort.                            *)
(***************************************************************************)
At(req, g, i) == IF i < Len(req) THEN req[i + 1] ELSE g[(i % Len(g)) + 1]

\* bytes a read beyond the vector may yield
OobPatterns == {<<0>>, <<255>>, <<0, 6>>}

(***************************************************************************)
(* Events of one call of processRequest, in program order: the store       *)
(* accesses and the write to the connection.                               *)
(***************************************************************************)
GetEv(index) == [op |-> "get", idx |-> index, val |-> 0, data |-> <<>>]
SetEv(index, value) == [op |-> "set", idx |-> index, val |-> value, data |-> <<>>]
WriteEv(bytes) == [op |-> "write", idx |-> 0, val |-> 0, data |-> bytes]

\* the result of a call: the store it leaves and its events
Result(r, events) == [reg |-> r, ev |-> events]

\* sendException: the three bytes written to the connection
sendException(deviceAddress, functionCode, exceptionCode) ==
    <<deviceAddress, SetErrorFlag(functionCode), exceptionCode>>

\* fields of the request, lines 27-29 and 78
FunctionCode(req, g) == At(req, g, 7)
StartAddress(req, g) == Word(At(req, g, 8), At(req, g, 9))
Quantity(req, g) == Word(At(req, g, 10), At(req, g, 11))
ByteCount(req, g) == At(req, g, 12)

\* faulty variant: the sum computed in uint16_t, wrapping around above 65535
RangeCheckWraps(startAddress, quantity, r) == U16(startAddress + quantity) > size(r)
\* startAddress + quantity > reg.size(), in int after integer promotion
OutOfRange(startAddress, quantity, r) == startAddress + quantity > size(r)

(***************************************************************************)
(* case 0x03, Read Holding Registers.                                      *)
(***************************************************************************)
\* faulty variant: the low byte of each register pushed before its high byte
ReadLoopDataLowByteFirst(r, startAddress, quantity) ==
    [j \in 1..(2 * quantity) |->
        LET regValue == getUint16(r, startAddress + ((j - 1) \div 2))
        IN  IF j % 2 = 1 THEN LoByte(regValue) ELSE HiByte(regValue)]

\* faulty variant: iteration i reads register startAddress + i + 1
ReadLoopDataNextRegister(r, startAddress, quantity) ==
    [j \in 1..(2 * quantity) |->
        LET regValue == getUint16(r, startAddress + ((j - 1) \div 2) + 1)
        IN  IF j % 2 = 1 THEN HiByte(regValue) ELSE LoByte(regValue)]

\* the read loop, lines 49-53: iteration i appends the two bytes of register
\* startAddress + i, so byte j (from 1) of the data comes from iteration (j-1) \div 2
ReadLoopData(r, startAddress, quantity) ==
    [j \in 1..(2 * quantity) |->
        LET regValue == getUint16(r, startAddress + ((j - 1) \div 2))
        IN  IF j % 2 = 1 THEN HiByte(regValue) ELSE LoByte(regValue)]

ReadLoopEvents(startAddress, quantity) == [i \in 1..quantity |-> GetEv(startAddress + i - 1)]

\* lines 39-47: MBAP header and the head of the PDU
ReadHeader(req, g, quantity) ==
    LET length == U16(3 + quantity * 2)
    IN  SubSeq(req, 1, 4)
        \o <<HiByte(length), LoByte(length), At(req, g, 6), FunctionCode(req, g), U8(quantity * 2)>>

ReadHoldingRegisters(req, g, r) ==
    LET startAddress == StartAddress(req, g)
        quantity == Quantity(req, g)
    IN  IF OutOfRange(startAddress, quantity, r)
        THEN Result(r, <<WriteEv(sendException(At(req, g, 6), FunctionCode(req, g), 2))>>)
        ELSE Result(r, ReadLoopEvents(startAddress, quantity)
                       \o <<WriteEv(ReadHeader(req, g, quantity)
                                    \o ReadLoopData(r, startAddress, quantity))>>)

(***************************************************************************)
(* case 0x06, Write Single Register.                                       *)
(***************************************************************************)
\* faulty variant: the value taken from the low byte alone
WriteSingleRegisterLowByte(req, g, r) ==
    LET startAddress == StartAddress(req, g)
        valueToWrite == At(req, g, 11)
    IN  IF startAddress >= size(r)
        THEN Result(r, <<WriteEv(sendException(At(req, g, 6), FunctionCode(req, g), 2))>>)
        ELSE Result(setUint16(r, startAddress, valueToWrite),
                    <<SetEv(startAddress, valueToWrite), WriteEv(req)>>)

WriteSingleRegister(req, g, r) ==
    LET startAddress == StartAddress(req, g)
        valueToWrite == Word(At(req, g, 10), At(req, g, 11))
    IN  IF startAddress >= size(r)
        THEN Result(r, <<WriteEv(sendException(At(req, g, 6), FunctionCode(req, g), 2))>>)
        ELSE Result(setUint16(r, startAddress, valueToWrite),
                    <<SetEv(startAddress, valueToWrite), WriteEv(req)>>)

(***************************************************************************)
(* case 0x10, Write Multiple Registers.                                    *)
(***************************************************************************)
\* faulty variant: the i-th value read at a stride of one byte
RegValueStrideOne(req, g, i) == Word(At(req, g, 6 + 7 + i), At(req, g, 6 + 8 + i))

\* line 88: the i-th value of the request
RegValue(req, g, i) == Word(At(req, g, 6 + 7 + (i * 2)), At(req, g, 6 + 8 + (i * 2)))

\* the write loop, lines 87-90, iterations 0 .. n-1: iteration i sets register
\* startAddress + i to the i-th value, in ascending order of i
WriteLoop(req, g, r, startAddress, n) ==
    Result([k \in 1..Len(r) |->
               IF startAddress < k /\ k <= startAddress + n
               THEN RegValue(req, g, k - 1 - startAddress)
               ELSE r[k]],
           [j \in 1..n |-> SetEv(startAddress + j - 1, RegValue(req, g, j - 1))])

\* lines 93-99: the response
WriteMultipleResponse(req, g) ==
    SubSeq(req, 1, 6)
    \o <<At(req, g, 6 + 1), FunctionCode(req, g),
         HiByte(StartAddress(req, g)), LoByte(StartAddress(req, g)),
         HiByte(Quantity(req, g)), LoByte(Quantity(req, g))>>

\* line 81
WriteMultipleInvalid(req, g, r) ==
    \/ OutOfRange(StartAddress(req, g), Quantity(req, g), r)
    \/ ByteCount(req, g) # Quantity(req, g) * 2

\* faulty variant: byteCount compared only after the registers were written
WriteMultipleChecksCountLate(req, g, r) ==
    IF OutOfRange(StartAddress(req, g), Quantity(req, g), r)
    THEN Result(r, <<WriteEv(sendException(At(req, g, 6), FunctionCode(req, g), 2))>>)
    ELSE LET written == WriteLoop(req, g, r, StartAddress(req, g), Quantity(req, g))
         IN  IF ByteCount(req, g) # Quantity(req, g) * 2
             THEN Result(written.reg,
                         Append(written.ev,
                                WriteEv(sendException(At(req, g, 6), FunctionCode(req, g), 2))))
             ELSE Result(written.reg,
                         Append(written.ev, WriteEv(WriteMultipleResponse(req, g))))

WriteMultipleRegisters(req, g, r) ==
    IF WriteMultipleInvalid(req, g, r)
    THEN Result(r, <<WriteEv(sendException(At(req, g, 6), FunctionCode(req, g), 2))>>)
    ELSE LET written == WriteLoop(req, g, r, StartAddress(req, g), Quantity(req, g))
         IN  Result(written.reg, Append(written.ev, WriteEv(WriteMultipleResponse(req, g))))

(***************************************************************************)
(* processRequest: the dispatcher.                                         *)
(***************************************************************************)
processRequest(req, g, r) ==
    LET functionCode == FunctionCode(req, g)
    IN  CASE functionCode = 3 -> ReadHoldingRegisters(req, g, r)
          [] functionCode = 6 -> WriteSingleRegister(req, g, r)
          [] functionCode = 16 -> WriteMultipleRegisters(req, g, r)
          [] OTHER -> Result(r, <<WriteEv(sendException(At(req, g, 0), functionCode, 1))>>)

\* the highest index of the request vector that processRequest reads
MaxIndexRead(req, g, r) ==
    IF FunctionCode(req, g) # 16 THEN 11
    ELSE IF WriteMultipleInvalid(req, g, r) \/ Quantity(req, g) = 0 THEN 12
    ELSE 6 + 8 + ((Quantity(req, g) - 1) * 2)

\* iterations of the write loop that read inside the request vector
ItersInFrame(req, quantity) ==
    IF Len(req) < 15 THEN 0 ELSE Min(quantity, (Len(req) - 13) \div 2)

\* what processRequest has done when its first read beyond the vector aborts
processRequestAborted(req, g, r) ==
    IF Len(req) < 13 \/ FunctionCode(req, g) # 16 \/ WriteMultipleInvalid(req, g, r)
    THEN Result(r, <<>>)
    ELSE WriteLoop(req, g, r, StartAddress(req, g),
                   ItersInFrame(req, Quantity(req, g)))


(***************************************************************************)
(* What clients put on the wire.  Every frame carries transaction id       *)
(* 0x0106 and protocol id 0.  Its length field L is any value up to        *)
(* MaxBody.  Its body is a whole request of L bytes, or the first L bytes  *)
(* of one of the requests of CutRequests (padded with zeros beyond the     *)
(* request's own end), so frames shorter and longer than their request     *)
(* both occur.                                                             *)
(***************************************************************************)
Addresses == {0, RegSize - 2, RegSize, 65535}
Quantities == {0, 1, 2, 128}
ByteCounts == {0, 2, 4}
Values == {2, 4660}

Requests ==
    {<<17, 3, HiByte(a), LoByte(a), HiByte(q), LoByte(q)>> :
        a \in Addresses, q \in Quantities}
    \cup {<<17, 6, HiByte(a), LoByte(a), HiByte(v), LoByte(v)>> :
        a \in Addresses, v \in Values}
    \cup {<<17, 16, HiByte(a), LoByte(a), HiByte(q), LoByte(q), bc, 18, 52, 171, 205>> :
        a \in Addresses, q \in Quantities, bc \in ByteCounts}
    \cup {<<17, fc>> : fc \in {7, 131}}

CutRequests ==
    { <<17, 3, 0, 0, 0, 1>>,
      <<17, 6, 0, 0, 18, 52>>,
      <<17, 16, 0, 0, 0, 2, 4, 18, 52, 171, 205>>,
      <<17, 7>> }

Fit(b, L) == [i \in 1..L |-> IF i <= Len(b) THEN b[i] ELSE 0]
BodiesOfLen(L) == {b \in Requests : Len(b) = L} \cup {Fit(b, L) : b \in CutRequests}
Prefix(L) == <<1, 6, 0, 0, HiByte(L), LoByte(L)>>

\* bytes a failing readExact has stored before read() returned <= 0
PartialCounts == {0, 1}

VARIABLES
    reg,        \* the HoldingRegister shared by the sessions
    stop_,      \* Impl::stop_
    aborted,    \* the process has aborted in a read beyond the request vector
    pc,         \* where each session's clientThread is
    mbap,       \* clientThread's mbap array
    request,    \* clientThread's request vector
    nreq,       \* frames the session's client has sent so far
    lastRead,   \* outcome of the session's latest readExact
    trace,      \* events of processRequest since the latest prefix was read
    regBefore,  \* the store when the latest prefix was read
    maxRead,    \* highest request index read by the latest processRequest
    prevCall,   \* the register and value written by the call before the latest
                \* frame, when that call was a 0x06 write that succeeded
    nwritten    \* calls of conn.write the session has made

\* The server around the sessions: the thread of start() that accepts
\* connections, the caller of stop(), the destructor, and the position of
\* each session inside processRequest.
VARIABLES
    acceptPc,   \* thread_: "none" before start(), "test", "accept", "spawn", "done"
    listening,  \* server_ is open
    nclients,   \* clients_.size(): the sessions spawned are 1 .. nclients
    stopPc,     \* stop(): "none", "flag" (stop_ set, close to come), "done"
    dtorPc,     \* ~Impl: "none", "clients", "thread", "members", "done"
    dtorEnd,    \* clients_.end() as the range-for of ~Impl evaluated it
    dtorIdx,    \* clients the range-for has gone past
    joined,     \* the sessions whose thread has been joined
    inStore,    \* the session is inside a getUint16 or setUint16 call
    step,       \* store accesses the session's current call has completed
    got,        \* what the getUint16 calls of the current call returned
    afterStop   \* prefixes the session has read while stop_ was set

srvVars == <<acceptPc, listening, nclients, stopPc, dtorPc, dtorEnd, dtorIdx, joined,
             inStore, step, got, afterStop>>

sessionVars == <<reg, stop_, aborted, pc, mbap, request, nreq, lastRead, trace, regBefore,
                 maxRead, prevCall, nwritten>>

vars == <<sessionVars, srvVars>>

\* <<register, value>> when processRequest(req) is a 0x06 write that succeeds
SingleWriteOf(req) ==
    IF Len(req) >= 12 /\ req[8] = 6 /\ Word(req[9], req[10]) < RegSize
    THEN <<Word(req[9], req[10]), Word(req[11], req[12])>>
    ELSE <<>>

\* the calls of conn.write among the events of a call
Writes(events) == Len(SelectSeq(events, LAMBDA e : e.op = "write"))

\* the length field of the prefix, line 147
LengthOf(prefix) == Word(prefix[5], prefix[6])

\* request.resize(length): the old elements stay, new ones are zero
Resized(old, length) == [i \in 1..length |-> IF i <= Len(old) THEN old[i] ELSE 0]

\* Spec follows one connection of a started server: session 1 has been
\* spawned by the accept loop and is about to make its first loop test, the
\* other sessions have not been spawned
SessionStart(s) == s = 1

Init ==
    /\ reg = [i \in 1..RegSize |-> 0]
    /\ stop_ = FALSE
    /\ aborted = FALSE
    /\ pc = [s \in Sessions |-> IF SessionStart(s) THEN "loop" ELSE "idle"]
    /\ mbap = [s \in Sessions |-> <<0, 0, 0, 0, 0, 0>>]
    /\ request = [s \in Sessions |-> <<>>]
    /\ nreq = [s \in Sessions |-> 0]
    /\ lastRead = [s \in Sessions |-> "none"]
    /\ trace = [s \in Sessions |-> <<>>]
    /\ regBefore = [s \in Sessions |-> reg]
    /\ maxRead = [s \in Sessions |-> 0]
    /\ prevCall = [s \in Sessions |-> <<>>]
    /\ nwritten = [s \in Sessions |-> 0]
    /\ acceptPc = "accept"
    /\ listening = TRUE
    /\ nclients = 1
    /\ stopPc = "none"
    /\ dtorPc = "none"
    /\ dtorEnd = 0
    /\ dtorIdx = 0
    /\ joined = {}
    /\ inStore = [s \in Sessions |-> FALSE]
    /\ step = [s \in Sessions |-> 0]
    /\ got = [s \in Sessions |-> <<>>]
    /\ afterStop = [s \in Sessions |-> 0]

\* faulty variant: the loop goes on whatever stop_ holds
LoopTestIgnoresStop(s) ==
    /\ ~aborted
    /\ pc[s] = "loop"
    /\ pc' = [pc EXCEPT ![s] = "readMbap"]
    /\ UNCHANGED <<reg, stop_, aborted, mbap, request, nreq, lastRead, trace, regBefore, maxRead,
                   prevCall, nwritten>>
    /\ UNCHANGED srvVars

\* while (!stop_), line 138
LoopTest(s) ==
    /\ ~aborted
    /\ pc[s] = "loop"
    /\ pc' = [pc EXCEPT ![s] = IF stop_ THEN "closed" ELSE "readMbap"]
    /\ UNCHANGED <<reg, stop_, aborted, mbap, request, nreq, lastRead, trace, regBefore, maxRead,
                   prevCall, nwritten>>
    /\ UNCHANGED srvVars

\* conn->readExact(mbap) returns true, lines 140 and 147
ReadPrefix(s) ==
    /\ ~aborted
    /\ pc[s] = "readMbap"
    /\ nreq[s] < MaxRequests
    /\ \E L \in 0..MaxBody : mbap' = [mbap EXCEPT ![s] = Prefix(L)]
    /\ pc' = [pc EXCEPT ![s] = "readBody"]
    /\ nreq' = [nreq EXCEPT ![s] = @ + 1]
    /\ lastRead' = [lastRead EXCEPT ![s] = "prefix"]
    /\ trace' = [trace EXCEPT ![s] = <<>>]
    /\ regBefore' = [regBefore EXCEPT ![s] = reg]
    /\ prevCall' = [prevCall EXCEPT ![s] =
          IF lastRead[s] \in {"ok", "bodyFailed"} THEN SingleWriteOf(request[s]) ELSE <<>>]
    /\ UNCHANGED <<reg, stop_, aborted, request, maxRead, nwritten>>
    /\ UNCHANGED srvVars

\* conn->readExact(mbap) returns false: break, lines 140-143
ReadPrefixFail(s) ==
    /\ ~aborted
    /\ pc[s] = "readMbap"
    /\ pc' = [pc EXCEPT ![s] = "closed"]
    /\ lastRead' = [lastRead EXCEPT ![s] = "prefixFailed"]
    /\ trace' = [trace EXCEPT ![s] = <<>>]
    /\ regBefore' = [regBefore EXCEPT ![s] = reg]
    /\ UNCHANGED <<reg, stop_, aborted, mbap, request, nreq, maxRead, prevCall, nwritten>>
    /\ UNCHANGED srvVars

\* request.resize(length); conn->readExact(request) returns true;
\* request.insert(begin, mbap): lines 150-153
ReadBody(s) ==
    /\ ~aborted
    /\ pc[s] = "readBody"
    /\ \E body \in BodiesOfLen(LengthOf(mbap[s])) :
          request' = [request EXCEPT ![s] = mbap[s] \o body]
    /\ pc' = [pc EXCEPT ![s] = "dispatch"]
    /\ lastRead' = [lastRead EXCEPT ![s] = "ok"]
    /\ UNCHANGED <<reg, stop_, aborted, mbap, nreq, trace, regBefore, maxRead, prevCall, nwritten>>
    /\ UNCHANGED srvVars

\* the same lines when readExact(request) returns false after k bytes: its
\* result is not looked at, and the vector keeps what resize left in it
ReadBodyFail(s) ==
    /\ ~aborted
    /\ pc[s] = "readBody"
    /\ LengthOf(mbap[s]) > 0
    /\ \E k \in PartialCounts, body \in BodiesOfLen(LengthOf(mbap[s])) :
          /\ k < LengthOf(mbap[s])
          /\ request' = [request EXCEPT ![s] =
                mbap[s] \o SubSeq(body, 1, k)
                        \o SubSeq(Resized(request[s], LengthOf(mbap[s])), k + 1, LengthOf(mbap[s]))]
    /\ pc' = [pc EXCEPT ![s] = "dispatch"]
    /\ lastRead' = [lastRead EXCEPT ![s] = "bodyFailed"]
    /\ UNCHANGED <<reg, stop_, aborted, mbap, nreq, trace, regBefore, maxRead, prevCall, nwritten>>
    /\ UNCHANGED srvVars

\* processRequest(*conn, request, *register_) returns, line 154
Dispatch(s) ==
    /\ ~aborted
    /\ pc[s] = "dispatch"
    /\ \E g \in OobPatterns :
          LET res == processRequest(request[s], g, reg)
          IN  /\ reg' = res.reg
              /\ trace' = [trace EXCEPT ![s] = res.ev]
              /\ maxRead' = [maxRead EXCEPT ![s] = MaxIndexRead(request[s], g, reg)]
              /\ nwritten' = [nwritten EXCEPT ![s] = @ + Writes(res.ev)]
    /\ pc' = [pc EXCEPT ![s] = "loop"]
    /\ UNCHANGED <<stop_, aborted, mbap, request, nreq, lastRead, regBefore, prevCall>>
    /\ UNCHANGED srvVars

\* processRequest reads beyond the request vector and the read aborts
DispatchAbort(s) ==
    /\ ~aborted
    /\ pc[s] = "dispatch"
    /\ \E g \in OobPatterns :
          LET res == processRequestAborted(request[s], g, reg)
          IN  /\ MaxIndexRead(request[s], g, reg) >= Len(request[s])
              /\ reg' = res.reg
              /\ trace' = [trace EXCEPT ![s] = res.ev]
              /\ maxRead' = [maxRead EXCEPT ![s] = MaxIndexRead(request[s], g, reg)]
              /\ nwritten' = [nwritten EXCEPT ![s] = @ + Writes(res.ev)]
    /\ aborted' = TRUE
    /\ pc' = [pc EXCEPT ![s] = "aborted"]
    /\ UNCHANGED <<stop_, mbap, request, nreq, lastRead, regBefore, prevCall>>
    /\ UNCHANGED srvVars

\* Impl::stop, line 130: stop_ = true
Stop ==
    /\ ~aborted
    /\ stopPc = "none"
    /\ dtorPc # "done"
    /\ stop_' = TRUE
    /\ stopPc' = "flag"
    /\ UNCHANGED <<reg, aborted, pc, mbap, request, nreq, lastRead, trace, regBefore, maxRead,
                   prevCall, nwritten>>
    /\ UNCHANGED <<acceptPc, listening, nclients, dtorPc, dtorEnd, dtorIdx, joined,
                   inStore, step, got, afterStop>>

\* Impl::stop, line 131: server_.close()
StopClose ==
    /\ ~aborted
    /\ stopPc = "flag"
    /\ listening' = FALSE
    /\ stopPc' = "done"
    /\ UNCHANGED sessionVars
    /\ UNCHANGED <<acceptPc, nclients, dtorPc, dtorEnd, dtorIdx, joined,
                   inStore, step, got, afterStop>>

Next ==
    \/ \E s \in Sessions : LoopTest(s)
    \/ \E s \in Sessions : ReadPrefix(s)
    \/ \E s \in Sessions : ReadPrefixFail(s)
    \/ \E s \in Sessions : ReadBody(s)
    \/ \E s \in Sessions : ReadBodyFail(s)
    \/ \E s \in Sessions : Dispatch(s)
    \/ \E s \in Sessions : DispatchAbort(s)
    \/ Stop
    \/ StopClose

Spec == Init /\ [][Next]_vars

(***************************************************************************)
(* The whole server: start(), the accept loop, stop(), ~Impl, and sessions *)
(* that run processRequest one store access at a time.                     *)
(***************************************************************************)
\* frames the clients of the server send: a read of registers 0 and 1, a
\* 0x10 write of 0x1234 and 0xABCD to them, and for session s a 0x06 write
\* to a register of its own
ReadFrame == Prefix(6) \o <<17, 3, 0, 0, 0, 2>>
WriteMultipleFrame == Prefix(11) \o <<17, 16, 0, 0, 0, 2, 4, 18, 52, 171, 205>>
OwnAddress(s) == RegSize - s
OwnValue(s) == 4660 + s
WriteSingleFrame(s) ==
    Prefix(6) \o <<17, 6, HiByte(OwnAddress(s)), LoByte(OwnAddress(s)),
                         HiByte(OwnValue(s)), LoByte(OwnValue(s))>>
\* what the clients send where the store accesses are followed one by one
StoreFrames(s) == {ReadFrame, WriteMultipleFrame, WriteSingleFrame(s)}
\* what the clients send where the life of the server is followed
ServerFrames(s) == {WriteSingleFrame(s)}

RECURSIVE FramesRead(_)
FramesRead(n) == IF n = 0 THEN 0 ELSE nreq[n] + FramesRead(n - 1)

\* the registers as the getUint16 calls made so far by the call of session s
\* returned them; the calls a request makes come first among its events
View(s) ==
    LET startAddress == StartAddress(request[s], <<0>>)
    IN  [k \in 1..RegSize |->
            IF startAddress < k /\ k <= startAddress + Len(got[s])
            THEN got[s][k - startAddress]
            ELSE 0]

\* the store accesses and the write of the call of session s, in order
Plan(s) == processRequest(request[s], <<0>>, View(s)).ev

\* nothing read, nothing written, no call of stop() or of the destructor
InitIdle ==
    /\ reg = [i \in 1..RegSize |-> 0]
    /\ aborted = FALSE
    /\ mbap = [s \in Sessions |-> <<0, 0, 0, 0, 0, 0>>]
    /\ request = [s \in Sessions |-> <<>>]
    /\ nreq = [s \in Sessions |-> 0]
    /\ lastRead = [s \in Sessions |-> "none"]
    /\ trace = [s \in Sessions |-> <<>>]
    /\ regBefore = [s \in Sessions |-> reg]
    /\ maxRead = [s \in Sessions |-> 0]
    /\ prevCall = [s \in Sessions |-> <<>>]
    /\ nwritten = [s \in Sessions |-> 0]
    /\ listening = TRUE
    /\ stopPc = "none"
    /\ dtorPc = "none"
    /\ dtorEnd = 0
    /\ dtorIdx = 0
    /\ joined = {}
    /\ inStore = [s \in Sessions |-> FALSE]
    /\ step = [s \in Sessions |-> 0]
    /\ got = [s \in Sessions |-> <<>>]
    /\ afterStop = [s \in Sessions |-> 0]

\* ModbusServer::Impl::Impl, lines 113-116: stop_ gets no initial value
InitServer ==
    /\ InitIdle
    /\ stop_ \in BOOLEAN
    /\ pc = [s \in Sessions |-> "idle"]
    /\ acceptPc = "none"
    /\ nclients = 0

\* a started server whose accept loop has spawned every session
InitStore ==
    /\ InitIdle
    /\ stop_ = FALSE
    /\ pc = [s \in Sessions |-> "loop"]
    /\ acceptPc = "accept"
    /\ nclients = NumSessions

\* start(), lines 118-127: thread_ begins the accept loop
Start ==
    /\ ~aborted
    /\ acceptPc = "none" /\ dtorPc = "none"
    /\ acceptPc' = "test"
    /\ UNCHANGED sessionVars
    /\ UNCHANGED <<listening, nclients, stopPc, dtorPc, dtorEnd, dtorIdx, joined,
                   inStore, step, got, afterStop>>

\* while (!stop_), line 121
AcceptTest ==
    /\ ~aborted
    /\ acceptPc = "test"
    /\ acceptPc' = IF stop_ THEN "done" ELSE "accept"
    /\ UNCHANGED sessionVars
    /\ UNCHANGED <<listening, nclients, stopPc, dtorPc, dtorEnd, dtorIdx, joined,
                   inStore, step, got, afterStop>>

\* server_.accept() returns a connection, line 122
Accept ==
    /\ ~aborted
    /\ acceptPc = "accept" /\ listening
    /\ nclients < NumSessions
    /\ acceptPc' = "spawn"
    /\ UNCHANGED sessionVars
    /\ UNCHANGED <<listening, nclients, stopPc, dtorPc, dtorEnd, dtorIdx, joined,
                   inStore, step, got, afterStop>>

\* server_.accept() throws once server_ is closed; the catch of line 125
\* ends the thread
AcceptFails ==
    /\ ~aborted
    /\ acceptPc = "accept" /\ ~listening
    /\ acceptPc' = "done"
    /\ UNCHANGED sessionVars
    /\ UNCHANGED <<listening, nclients, stopPc, dtorPc, dtorEnd, dtorIdx, joined,
                   inStore, step, got, afterStop>>

\* clients_.emplace_back(&Impl::clientThread, this, std::move(conn)), line 123
Spawn ==
    /\ ~aborted
    /\ acceptPc = "spawn"
    /\ nclients' = nclients + 1
    /\ pc' = [pc EXCEPT ![nclients + 1] = "loop"]
    /\ acceptPc' = "test"
    /\ UNCHANGED <<reg, stop_, aborted, mbap, request, nreq, lastRead, trace, regBefore,
                   maxRead, prevCall, nwritten>>
    /\ UNCHANGED <<listening, stopPc, dtorPc, dtorEnd, dtorIdx, joined,
                   inStore, step, got, afterStop>>

\* the same emplace_back while ~Impl iterates over clients_: the vector is
\* written and read without synchronisation, and the process may stop here
SpawnRace ==
    /\ ~aborted
    /\ acceptPc = "spawn" /\ dtorPc = "clients"
    /\ aborted' = TRUE
    /\ UNCHANGED <<reg, stop_, pc, mbap, request, nreq, lastRead, trace, regBefore,
                   maxRead, prevCall, nwritten>>
    /\ UNCHANGED srvVars

\* ~Impl, line 159: the range-for takes clients_.begin() and clients_.end()
DtorBegin ==
    /\ ~aborted
    /\ dtorPc = "none"
    /\ dtorPc' = "clients"
    /\ dtorEnd' = nclients
    /\ dtorIdx' = 0
    /\ UNCHANGED sessionVars
    /\ UNCHANGED <<acceptPc, listening, nclients, stopPc, joined, inStore, step, got, afterStop>>

\* ~Impl, line 160: client.join() returns when the session has ended
DtorJoinClient ==
    /\ ~aborted
    /\ dtorPc = "clients" /\ dtorIdx < dtorEnd
    /\ pc[dtorIdx + 1] = "closed"
    /\ joined' = joined \cup {dtorIdx + 1}
    /\ dtorIdx' = dtorIdx + 1
    /\ UNCHANGED sessionVars
    /\ UNCHANGED <<acceptPc, listening, nclients, stopPc, dtorPc, dtorEnd, inStore, step, got,
                   afterStop>>

\* ~Impl, line 159: the range-for has reached the end it took
DtorClientsDone ==
    /\ ~aborted
    /\ dtorPc = "clients" /\ dtorIdx = dtorEnd
    /\ dtorPc' = "thread"
    /\ UNCHANGED sessionVars
    /\ UNCHANGED <<acceptPc, listening, nclients, stopPc, dtorEnd, dtorIdx, joined,
                   inStore, step, got, afterStop>>

\* ~Impl, line 162: thread_.join() returns when the accept loop has ended
\* (thread_ is not joinable when start() was never called)
DtorJoinThread ==
    /\ ~aborted
    /\ dtorPc = "thread" /\ acceptPc \in {"none", "done"}
    /\ dtorPc' = "members"
    /\ UNCHANGED sessionVars
    /\ UNCHANGED <<acceptPc, listening, nclients, stopPc, dtorEnd, dtorIdx, joined,
                   inStore, step, got, afterStop>>

\* the end of ~Impl, line 163: the members of lines 166-171 are destroyed,
\* and the destructor of a std::thread that is still joinable ends the
\* process (std::terminate); otherwise the destruction returns
DtorMembers ==
    /\ ~aborted
    /\ dtorPc = "members"
    /\ IF 1..nclients \subseteq joined
       THEN dtorPc' = "done" /\ aborted' = aborted
       ELSE dtorPc' = dtorPc /\ aborted' = TRUE
    /\ UNCHANGED <<reg, stop_, pc, mbap, request, nreq, lastRead, trace, regBefore,
                   maxRead, prevCall, nwritten>>
    /\ UNCHANGED <<acceptPc, listening, nclients, stopPc, dtorEnd, dtorIdx, joined,
                   inStore, step, got, afterStop>>

\* conn->readExact(mbap) returns true with the prefix of a frame, lines 140
\* and 147; the clients send MaxRequests frames in all, taken from frames
ServerReadPrefix(s, frames) ==
    /\ ~aborted
    /\ pc[s] = "readMbap"
    /\ FramesRead(NumSessions) < MaxRequests
    /\ \E f \in frames : mbap' = [mbap EXCEPT ![s] = SubSeq(f, 1, 6)]
    /\ pc' = [pc EXCEPT ![s] = "readBody"]
    /\ nreq' = [nreq EXCEPT ![s] = @ + 1]
    /\ lastRead' = [lastRead EXCEPT ![s] = "prefix"]
    /\ trace' = [trace EXCEPT ![s] = <<>>]
    /\ afterStop' = [afterStop EXCEPT ![s] = IF stop_ THEN @ + 1 ELSE @]
    /\ UNCHANGED <<reg, stop_, aborted, request, maxRead, nwritten, regBefore, prevCall>>
    /\ UNCHANGED <<acceptPc, listening, nclients, stopPc, dtorPc, dtorEnd, dtorIdx, joined,
                   inStore, step, got>>

\* request.resize(length); conn->readExact(request) returns true;
\* request.insert(begin, mbap): lines 150-153
ServerReadBody(s, frames) ==
    /\ ~aborted
    /\ pc[s] = "readBody"
    /\ \E f \in frames :
          /\ SubSeq(f, 1, 6) = mbap[s]
          /\ request' = [request EXCEPT ![s] = f]
    /\ pc' = [pc EXCEPT ![s] = "dispatch"]
    /\ lastRead' = [lastRead EXCEPT ![s] = "ok"]
    /\ step' = [step EXCEPT ![s] = 0]
    /\ got' = [got EXCEPT ![s] = <<>>]
    /\ UNCHANGED <<reg, stop_, aborted, mbap, nreq, trace, regBefore, maxRead, prevCall, nwritten>>
    /\ UNCHANGED <<acceptPc, listening, nclients, stopPc, dtorPc, dtorEnd, dtorIdx, joined,
                   inStore, afterStop>>

\* processRequest calls reg.getUint16 (line 50) or reg.setUint16 (lines 66, 89)
StoreEnter(s) ==
    /\ ~aborted
    /\ pc[s] = "dispatch" /\ ~inStore[s]
    /\ Plan(s)[step[s] + 1].op \in {"get", "set"}
    /\ inStore' = [inStore EXCEPT ![s] = TRUE]
    /\ UNCHANGED sessionVars
    /\ UNCHANGED <<acceptPc, listening, nclients, stopPc, dtorPc, dtorEnd, dtorIdx, joined,
                   step, got, afterStop>>

\* faulty variant: setUint16 stores the session's own copy of the registers
\* with the one register changed
StoreLeaveWritesBackCopy(s) ==
    /\ ~aborted
    /\ pc[s] = "dispatch" /\ inStore[s]
    /\ LET e == Plan(s)[step[s] + 1]
       IN  IF e.op = "get"
           THEN /\ got' = [got EXCEPT ![s] = Append(@, getUint16(reg, e.idx))]
                /\ reg' = reg
           ELSE /\ reg' = setUint16(View(s), e.idx, e.val)
                /\ got' = got
    /\ step' = [step EXCEPT ![s] = @ + 1]
    /\ inStore' = [inStore EXCEPT ![s] = FALSE]
    /\ UNCHANGED <<stop_, aborted, pc, mbap, request, nreq, lastRead, trace, regBefore,
                   maxRead, prevCall, nwritten>>
    /\ UNCHANGED <<acceptPc, listening, nclients, stopPc, dtorPc, dtorEnd, dtorIdx, joined,
                   afterStop>>

\* the call of getUint16 or setUint16 takes effect and returns
StoreLeave(s) ==
    /\ ~aborted
    /\ pc[s] = "dispatch" /\ inStore[s]
    /\ LET e == Plan(s)[step[s] + 1]
       IN  IF e.op = "get"
           THEN /\ got' = [got EXCEPT ![s] = Append(@, getUint16(reg, e.idx))]
                /\ reg' = reg
           ELSE /\ reg' = setUint16(reg, e.idx, e.val)
                /\ got' = got
    /\ step' = [step EXCEPT ![s] = @ + 1]
    /\ inStore' = [inStore EXCEPT ![s] = FALSE]
    /\ UNCHANGED <<stop_, aborted, pc, mbap, request, nreq, lastRead, trace, regBefore,
                   maxRead, prevCall, nwritten>>
    /\ UNCHANGED <<acceptPc, listening, nclients, stopPc, dtorPc, dtorEnd, dtorIdx, joined,
                   afterStop>>

\* conn.write(response) and the return of processRequest, lines 22, 55, 70, 101
Respond(s) ==
    /\ ~aborted
    /\ pc[s] = "dispatch" /\ ~inStore[s]
    /\ Plan(s)[step[s] + 1].op = "write"
    /\ trace' = [trace EXCEPT ![s] = Plan(s)]
    /\ nwritten' = [nwritten EXCEPT ![s] = @ + 1]
    /\ pc' = [pc EXCEPT ![s] = "loop"]
    /\ UNCHANGED <<reg, stop_, aborted, mbap, request, nreq, lastRead, regBefore, maxRead,
                   prevCall>>
    /\ UNCHANGED srvVars

NextServer ==
    \/ Start
    \/ AcceptTest
    \/ Accept
    \/ AcceptFails
    \/ Spawn
    \/ SpawnRace
    \/ Stop
    \/ StopClose
    \/ DtorBegin
    \/ DtorJoinClient
    \/ DtorClientsDone
    \/ DtorJoinThread
    \/ DtorMembers
    \/ \E s \in Sessions : LoopTest(s)
    \/ \E s \in Sessions : ServerReadPrefix(s, ServerFrames(s))
    \/ \E s \in Sessions : ReadPrefixFail(s)
    \/ \E s \in Sessions : ServerReadBody(s, ServerFrames(s))
    \/ \E s \in Sessions : Dispatch(s)

\* the life of the server, each call of processRequest taken as one step
SpecServer == InitServer /\ [][NextServer]_vars

NextStore ==
    \/ \E s \in Sessions : LoopTest(s)
    \/ \E s \in Sessions : ServerReadPrefix(s, StoreFrames(s))
    \/ \E s \in Sessions : ReadPrefixFail(s)
    \/ \E s \in Sessions : ServerReadBody(s, StoreFrames(s))
    \/ \E s \in Sessions : StoreEnter(s)
    \/ \E s \in Sessions : StoreLeave(s)
    \/ \E s \in Sessions : Respond(s)

\* the sessions of a running server, each store access taken as a step
SpecStore == InitStore /\ [][NextStore]_vars

\* the server between start() and the destructor
NextRunning ==
    \/ Start
    \/ AcceptTest
    \/ Accept
    \/ AcceptFails
    \/ Spawn
    \/ Stop
    \/ StopClose
    \/ \E s \in Sessions : LoopTest(s)
    \/ \E s \in Sessions : ServerReadPrefix(s, ServerFrames(s))
    \/ \E s \in Sessions : ReadPrefixFail(s)
    \/ \E s \in Sessions : ServerReadBody(s, ServerFrames(s))
    \/ \E s \in Sessions : Dispatch(s)

\* thread_ and the caller of stop() keep running: a thread that can take its
\* next step takes it
FairServer ==
    /\ InitServer /\ [][NextRunning]_vars
    /\ WF_vars(AcceptTest \/ AcceptFails \/ Spawn)
    /\ WF_vars(StopClose)

(***************************************************************************)
(* Vocabulary of the properties.                                           *)
(***************************************************************************)
\* the session's latest frame went to processRequest, and the call is over
Called(s) == lastRead[s] \in {"ok", "bodyFailed"} /\ pc[s] \in {"loop", "aborted"}
\* ... and it returned
Returned(s) == lastRead[s] \in {"ok", "bodyFailed"} /\ pc[s] = "loop" /\ ~aborted

\* the byte sequences written to the connection by the latest call
Responses(s) ==
    LET w == SelectSeq(trace[s], LAMBDA e : e.op = "write")
    IN  [i \in 1..Len(w) |-> w[i].data]
StoreAccesses(s) == SelectSeq(trace[s], LAMBDA e : e.op \in {"get", "set"})

\* fields of the session's frame, for frames that hold them
ReqFc(s) == request[s][8]
ReqStart(s) == Word(request[s][9], request[s][10])
ReqQuantity(s) == Word(request[s][11], request[s][12])
ReqByteCount(s) == request[s][13]
ReqValue(s, i) == Word(request[s][14 + 2 * i], request[s][15 + 2 * i])
\* the frame holds function code, address and quantity (or value)
HasFields(s) == Len(request[s]) >= 12
\* a 0x10 frame that passes the validation of line 81 and holds its values
ValidWriteMultiple(s) ==
    /\ Len(request[s]) >= 13
    /\ ReqFc(s) = 16
    /\ ReqStart(s) + ReqQuantity(s) <= RegSize
    /\ ReqByteCount(s) = ReqQuantity(s) * 2
    /\ Len(request[s]) >= 13 + 2 * ReqQuantity(s)

IsException(bytes, fc, code) ==
    Len(bytes) = 3 /\ bytes[2] = SetErrorFlag(fc) /\ bytes[3] = code

\* registers other than start .. start+n-1 are as they were before the call
UnchangedOutside(s, start, n) ==
    \A k \in 0..(RegSize - 1) :
        (k < start \/ k >= start + n) => reg[k + 1] = regBefore[s][k + 1]

(***************************************************************************)
(* C1.  A frame is dispatched only when both exact reads succeeded: after  *)
(* a failed prefix read or a failed body read the session is closed, and   *)
(* processRequest was not called, nothing was written to the connection    *)
(* and the store is as it was.                                             *)
(***************************************************************************)
C1_FailedReadClosesSession ==
    \A s \in Sessions :
        lastRead[s] \in {"prefixFailed", "bodyFailed"} =>
            /\ pc[s] = "closed"
            /\ trace[s] = <<>>
            /\ reg = regBefore[s]

(***************************************************************************)
(* C2.  For every frame the frame reader delivers, processRequest reads    *)
(* no byte of the request at an index >= the frame's length 6 + L.         *)
(***************************************************************************)
C2_ReadsInsideFrame ==
    \A s \in Sessions : Called(s) => maxRead[s] < Len(request[s])

(***************************************************************************)
(* C3.  Every register index processRequest passes to getUint16 or         *)
(* setUint16 is less than the store's size, for every 16-bit startAddress  *)
(* and quantity: the sum startAddress + quantity is not reduced mod 2^16.  *)
(***************************************************************************)
C3_StoreIndexInRange ==
    \A s \in Sessions : \A i \in DOMAIN trace[s] :
        trace[s][i].op \in {"get", "set"} => trace[s][i].idx < size(reg)

\* a read at address 65535 of one register or more (sum above 65535) was
\* answered with an exception and without a store access
C3_Witness ==
    \E s \in Sessions :
        /\ Returned(s) /\ HasFields(s) /\ ReqFc(s) = 3
        /\ ReqStart(s) + ReqQuantity(s) > 65535
        /\ StoreAccesses(s) = <<>>
        /\ Responses(s) = <<sendException(request[s][7], 3, 2)>>

(***************************************************************************)
(* C4.  After a 0x06 request with startAddress < store size, register      *)
(* startAddress holds the request's value, every other register is as it   *)
(* was, and the one response written is the request frame, byte for byte.  *)
(***************************************************************************)
C4_WriteSingleRegister ==
    \A s \in Sessions :
        (Returned(s) /\ HasFields(s) /\ ReqFc(s) = 6 /\ ReqStart(s) < RegSize) =>
            /\ getUint16(reg, ReqStart(s)) = ReqQuantity(s)
            /\ UnchangedOutside(s, ReqStart(s), 1)
            /\ Responses(s) = <<request[s]>>

\* a 0x06 frame longer than its request has set a register to a value whose
\* two bytes differ and that the register did not hold
C4_Witness ==
    \E s \in Sessions :
        /\ Returned(s) /\ Len(request[s]) > 12 /\ ReqFc(s) = 6 /\ ReqStart(s) < RegSize
        /\ ReqQuantity(s) > 255
        /\ regBefore[s][ReqStart(s) + 1] # ReqQuantity(s)
        /\ reg[ReqStart(s) + 1] = ReqQuantity(s)

(***************************************************************************)
(* C5.  A request answered with an exception leaves every register as it   *)
(* was: 0x03 with startAddress + quantity > size, 0x06 with startAddress   *)
(* >= size, 0x10 with startAddress + quantity > size or byteCount #        *)
(* quantity * 2 are answered with exception code 2, any other function     *)
(* code with exception code 1, and in each case no register is set.        *)
(***************************************************************************)
ExceptionCase(s) ==
    \/ /\ HasFields(s) /\ ReqFc(s) = 3 /\ ReqStart(s) + ReqQuantity(s) > RegSize
    \/ /\ HasFields(s) /\ ReqFc(s) = 6 /\ ReqStart(s) >= RegSize
    \/ /\ Len(request[s]) >= 13 /\ ReqFc(s) = 16
       /\ \/ ReqStart(s) + ReqQuantity(s) > RegSize
          \/ ReqByteCount(s) # ReqQuantity(s) * 2
    \/ /\ Len(request[s]) >= 8 /\ ReqFc(s) \notin {3, 6, 16}

AnsweredWithException(s) ==
    Len(Responses(s)) = 1 /\ Len(Responses(s)[1]) = 3 /\ Responses(s)[1][2] >= 128

C5_ExceptionLeavesStore ==
    \A s \in Sessions :
        /\ (Returned(s) /\ ExceptionCase(s)) =>
              /\ Len(Responses(s)) = 1
              /\ IsException(Responses(s)[1], ReqFc(s), IF ReqFc(s) \in {3, 6, 16} THEN 2 ELSE 1)
        /\ (Returned(s) /\ AnsweredWithException(s)) =>
              /\ reg = regBefore[s]
              /\ StoreAccesses(s) = <<>>

\* a 0x10 request in range whose byteCount is not quantity * 2, sent to a
\* store that holds a non-zero register, was answered with exception 2
C5_Witness ==
    \E s \in Sessions :
        /\ Returned(s) /\ Len(request[s]) >= 13 /\ ReqFc(s) = 16
        /\ ReqQuantity(s) > 0
        /\ ReqStart(s) + ReqQuantity(s) <= RegSize
        /\ ReqByteCount(s) # ReqQuantity(s) * 2
        /\ Responses(s) = <<sendException(17, 16, 2)>>
        /\ \E k \in 1..RegSize : reg[k] # 0

(***************************************************************************)
(* C6.  The response to a 0x03 request with startAddress + quantity <=     *)
(* size carries exactly quantity register values after its 9 leading       *)
(* bytes, big-endian, the i-th being register startAddress + i; the store  *)
(* is unchanged.                                                           *)
(***************************************************************************)
C6_ReadHoldingRegisters ==
    \A s \in Sessions :
        (/\ Returned(s) /\ HasFields(s) /\ ReqFc(s) = 3
         /\ ReqStart(s) + ReqQuantity(s) <= RegSize) =>
            /\ Len(Responses(s)) = 1
            /\ Len(Responses(s)[1]) = 9 + 2 * ReqQuantity(s)
            /\ \A i \in 0..(ReqQuantity(s) - 1) :
                  Word(Responses(s)[1][10 + 2 * i], Responses(s)[1][11 + 2 * i])
                      = regBefore[s][ReqStart(s) + i + 1]
            /\ reg = regBefore[s]

\* a read of registers whose first one holds a value with two different bytes
C6_Witness ==
    \E s \in Sessions :
        /\ Returned(s) /\ HasFields(s) /\ ReqFc(s) = 3
        /\ ReqQuantity(s) >= 1
        /\ ReqStart(s) + ReqQuantity(s) <= RegSize
        /\ reg[ReqStart(s) + 1] = 4660
        /\ Len(Responses(s)) = 1
        /\ Responses(s)[1][10] = 18 /\ Responses(s)[1][11] = 52

(***************************************************************************)
(* C7.  In the response to every 0x03 request accepted by the range check  *)
(* (quantity from 0 up to the store size) the byte-count byte equals       *)
(* quantity * 2 and the length field equals 3 + quantity * 2.              *)
(***************************************************************************)
C7_ReadCountsNotTruncated ==
    \A s \in Sessions :
        (/\ Returned(s) /\ HasFields(s) /\ ReqFc(s) = 3
         /\ ReqStart(s) + ReqQuantity(s) <= RegSize) =>
            /\ Len(Responses(s)) = 1
            /\ Responses(s)[1][9] = ReqQuantity(s) * 2
            /\ Word(Responses(s)[1][5], Responses(s)[1][6]) = 3 + ReqQuantity(s) * 2

(***************************************************************************)
(* C8.  After a 0x10 request with startAddress + quantity <= size and      *)
(* byteCount = quantity * 2, register startAddress + i holds the i-th      *)
(* value of the request for every i < quantity, the registers were set in  *)
(* ascending order of i and before the one response was written, and       *)
(* every register outside the range is as it was.                          *)
(***************************************************************************)
C8_WriteMultipleRegisters ==
    \A s \in Sessions :
        (Returned(s) /\ ValidWriteMultiple(s)) =>
            /\ \A i \in 0..(ReqQuantity(s) - 1) :
                  getUint16(reg, ReqStart(s) + i) = ReqValue(s, i)
            /\ UnchangedOutside(s, ReqStart(s), ReqQuantity(s))
            /\ Len(trace[s]) = ReqQuantity(s) + 1
            /\ \A i \in 0..(ReqQuantity(s) - 1) :
                  trace[s][i + 1] = SetEv(ReqStart(s) + i, ReqValue(s, i))
            /\ trace[s][ReqQuantity(s) + 1].op = "write"

\* two registers were written with two different values
C8_Witness ==
    \E s \in Sessions :
        /\ Returned(s) /\ ValidWriteMultiple(s)
        /\ ReqQuantity(s) = 2
        /\ ReqValue(s, 0) # ReqValue(s, 1)
        /\ reg[ReqStart(s) + 1] = ReqValue(s, 0)
        /\ reg[ReqStart(s) + 2] = ReqValue(s, 1)

(***************************************************************************)
(* C9.  The success response to a 0x10 request has 12 bytes: its length    *)
(* field (bytes 4-5) is 6, byte 6 is the request's unit identifier, byte 7 *)
(* is 0x10 and bytes 8-11 are the request's startAddress and quantity.     *)
(***************************************************************************)
C9_WriteMultipleResponse ==
    \A s \in Sessions :
        (Returned(s) /\ ValidWriteMultiple(s)) =>
            /\ Len(Responses(s)) = 1
            /\ Len(Responses(s)[1]) = 12
            /\ Word(Responses(s)[1][5], Responses(s)[1][6]) = 6
            /\ Responses(s)[1][7] = request[s][7]
            /\ Responses(s)[1][8] = 16
            /\ SubSeq(Responses(s)[1], 9, 12) = SubSeq(request[s], 9, 12)

(***************************************************************************)
(* C10.  For every function code other than 0x03, 0x06 and 0x10 the call   *)
(* of processRequest writes one response whose function byte is the        *)
(* function code with bit 0x80 set and whose exception code is 1, and the  *)
(* session is back at its loop, still active.                              *)
(***************************************************************************)
C10_IllegalFunction ==
    \A s \in Sessions :
        (Called(s) /\ Len(request[s]) >= 8 /\ ReqFc(s) \notin {3, 6, 16}) =>
            /\ ~aborted
            /\ pc[s] = "loop"
            /\ Len(Responses(s)) = 1
            /\ IsException(Responses(s)[1], ReqFc(s), 1)

(***************************************************************************)
(* C11.  Every exception frame processRequest writes, on the 0x03, 0x06    *)
(* and 0x10 validation failures and on an unsupported function code, is    *)
(* the request's unit identifier (request byte 6), then the function code  *)
(* with bit 0x80 set, then the exception code.                             *)
(***************************************************************************)
C11_ExceptionFrameUnitId ==
    \A s \in Sessions :
        (Returned(s) /\ ExceptionCase(s) /\ Len(request[s]) >= 12) =>
            /\ AnsweredWithException(s)
            /\ Responses(s)[1] = <<request[s][7], SetErrorFlag(ReqFc(s)),
                                   IF ReqFc(s) \in {3, 6, 16} THEN 2 ELSE 1>>

(***************************************************************************)
(* C12.  Every frame processRequest writes in answer to a request, a       *)
(* success response or an exception, starts with the request's             *)
(* transaction identifier (request bytes 0-1).                             *)
(***************************************************************************)
C12_TransactionIdEchoed ==
    \A s \in Sessions :
        Returned(s) =>
            \A i \in DOMAIN Responses(s) :
                /\ Len(Responses(s)[i]) >= 2
                /\ SubSeq(Responses(s)[i], 1, 2) = SubSeq(request[s], 1, 2)

(***************************************************************************)
(* C13.  Round trip in one session: when a 0x06 write of value V to        *)
(* register k < store size succeeded and the session's next frame is a     *)
(* 0x03 read of register k with quantity 1, the one response to the read   *)
(* carries byte count 2 and the data word V.                               *)
(***************************************************************************)
C13_WriteThenReadRoundTrip ==
    \A s \in Sessions :
        (/\ Returned(s) /\ HasFields(s) /\ ReqFc(s) = 3 /\ ReqQuantity(s) = 1
         /\ prevCall[s] # <<>> /\ prevCall[s][1] = ReqStart(s)) =>
            /\ Len(Responses(s)) = 1
            /\ Len(Responses(s)[1]) = 11
            /\ Responses(s)[1][9] = 2
            /\ Word(Responses(s)[1][10], Responses(s)[1][11]) = prevCall[s][2]

\* register 128 was set to 0x1234 by a 0x06 write and read back by the next frame
C13_Witness ==
    \E s \in Sessions :
        /\ Returned(s) /\ HasFields(s) /\ ReqFc(s) = 3 /\ ReqQuantity(s) = 1
        /\ prevCall[s] = <<RegSize - 2, 4660>> /\ ReqStart(s) = RegSize - 2
        /\ nreq[s] = 2
        /\ SubSeq(Responses(s)[1], 10, 11) = <<18, 52>>

(***************************************************************************)
(* C17.  Within one session every frame handed to processRequest produces  *)
(* exactly one write to the connection, the register mutations of that     *)
(* frame come before that write, and the k-th response answers the k-th    *)
(* frame: when the session is at its loop, about to read, or closed, it    *)
(* has written as many responses as it has read frames, and while a frame  *)
(* is being read or processed exactly one response is outstanding.         *)
(***************************************************************************)
C17_OneResponsePerFrame ==
    \A s \in Sessions :
        /\ Called(s) =>
              /\ Writes(trace[s]) = 1
              /\ trace[s][Len(trace[s])].op = "write"
        /\ pc[s] \in {"loop", "readMbap", "closed", "aborted"} => nwritten[s] = nreq[s]
        /\ pc[s] \in {"readBody", "dispatch"} => nwritten[s] = nreq[s] - 1

(***************************************************************************)
(* C18.  A failed read in one session closes that session and changes      *)
(* nothing else: the store, the stop flag and every other session stay as  *)
(* they were; a call of processRequest that answers with an exception      *)
(* frame leaves its session at the loop, neither closed nor aborted.       *)
(***************************************************************************)
C18_TransportErrorClosesOnlySession ==
    [][\A s \in Sessions :
          /\ (lastRead'[s] # lastRead[s] /\ lastRead'[s] \in {"prefixFailed", "bodyFailed"}) =>
                /\ pc'[s] = "closed"
                /\ reg' = reg /\ stop_' = stop_ /\ aborted' = aborted
                /\ \A t \in Sessions \ {s} : pc'[t] = pc[t] /\ request'[t] = request[t]
          /\ (/\ pc[s] = "dispatch" /\ pc'[s] # "dispatch" /\ Len(trace'[s]) = 1
              /\ trace'[s][1].op = "write" /\ Len(trace'[s][1].data) = 3
              /\ trace'[s][1].data[2] >= 128) =>
                /\ pc'[s] = "loop" /\ ~aborted'
                /\ \A t \in Sessions \ {s} : pc'[t] = pc[t]
      ]_vars

\* the session's latest frame was read whole, processRequest has answered
\* it, and the session has read nothing since
Done(s) == lastRead[s] = "ok" /\ pc[s] \in {"loop", "readMbap", "closed"} /\ ~aborted

(***************************************************************************)
(* C14.  No lost update: when every session has had a 0x06 write with an   *)
(* address below the store's size answered, and the addresses differ from  *)
(* session to session, every one of these registers holds the value its    *)
(* session wrote, however the store accesses of the sessions interleaved.  *)
(***************************************************************************)
C14_NoLostUpdate ==
    (/\ \A s \in Sessions : Done(s) /\ ReqFc(s) = 6 /\ ReqStart(s) < RegSize
     /\ \A s, t \in Sessions : s # t => ReqStart(s) # ReqStart(t)) =>
        \A s \in Sessions : getUint16(reg, ReqStart(s)) = ReqQuantity(s)

\* every session has written its own register, and the values are there
C14_Witness ==
    /\ \A s \in Sessions : Done(s) /\ request[s] = WriteSingleFrame(s)
    /\ \A s \in Sessions : reg[OwnAddress(s) + 1] = OwnValue(s)
    /\ \A s, t \in Sessions : s # t => reg[OwnAddress(s) + 1] # reg[OwnAddress(t) + 1]

(***************************************************************************)
(* C15.  When the destruction of the server returns, the accept loop has   *)
(* ended and every session ever spawned has ended and been joined; and     *)
(* once the destructor has finished collecting the sessions, no session    *)
(* is spawned any more and none is still running.                          *)
(***************************************************************************)
C15_DestructorCollectsAll ==
    /\ dtorPc = "done" =>
          /\ acceptPc \in {"none", "done"}
          /\ \A s \in 1..nclients : pc[s] = "closed" /\ s \in joined
    /\ dtorPc \in {"thread", "members", "done"} =>
          /\ nclients = dtorEnd
          /\ \A s \in 1..nclients : pc[s] = "closed"

(***************************************************************************)
(* C16.  No two sessions are inside a getUint16 or setUint16 call of the   *)
(* register store at the same time.                                        *)
(***************************************************************************)
C16_StoreAccessExclusive ==
    \A s, t \in Sessions : s # t => ~(inStore[s] /\ inStore[t])

(***************************************************************************)
(* C19.  Once stop() has been called on a started server the accept loop   *)
(* ends; stop() leaves every session where it is, and a session reads at   *)
(* most one more frame while stop_ is set: it handles that frame and       *)
(* closes at its next loop test.                                           *)
(***************************************************************************)
C19_StopEndsAcceptLoop ==
    /\ []((stopPc # "none" /\ acceptPc # "none") => <>(acceptPc = "done"))
    /\ [](\A s \in Sessions : afterStop[s] <= 1)
    /\ [][(stopPc' # stopPc) => (pc' = pc /\ mbap' = mbap /\ request' = request)]_vars

\* stop() is over, the accept loop has ended, and a session that was waiting
\* for a frame has read one more, answered it and closed
C19_Witness ==
    /\ stopPc = "done" /\ acceptPc = "done"
    /\ \E s \in Sessions :
          /\ afterStop[s] = 1 /\ nreq[s] = 1
          /\ lastRead[s] = "ok" /\ pc[s] = "closed" /\ nwritten[s] = 1

(***************************************************************************)
(* C20.  A 0x03 read of registers 0 and 1 by one session never returns a   *)
(* partially applied 0x10 write of these registers by another session:     *)
(* the two values are both from before the write (0, 0) or both from       *)
(* after it (0x1234, 0xABCD).                                              *)
(***************************************************************************)
C20_ReadNotTorn ==
    \A s \in Sessions :
        (Done(s) /\ request[s] = ReadFrame) =>
            /\ Len(Responses(s)) = 1
            /\ SubSeq(Responses(s)[1], 10, 13) \in {<<0, 0, 0, 0>>, <<18, 52, 171, 205>>}

====
